---- MODULE Spec2Model ----
(***************************************************************************)
(* Model of the webpage summarizer's rate limiter, URL cache and request   *)
(* orchestration.                                                          *)
(*                                                                         *)
(* Time is counted in ticks, TicksPerSecond ticks to the second, so that   *)
(* the fractional seconds time.time() returns are representable.  A        *)
(* duration of s seconds is Sec(s) ticks; int(x) of a value of x seconds   *)
(* is IntTrunc of its ticks.                                               *)
(*                                                                         *)
(* The specifications share the variables:                                 *)
(*   SpecBackend  the RateLimiter of src/backend/rate_limiter.py, driven   *)
(*                by check_rate_limit / record_request;                    *)
(*   SpecStorage  the same limiter over damaged records and failing writes;*)
(*   SpecCache    the URLCache of src/backend/cache.py, driven by set/get; *)
(*   Spec         summarize_webpage of src/app.py with its own RateLimiter *)
(*                and URLCache, one call in flight at a time;              *)
(*   SpecFaults   summarize_webpage over damaged files and failing writes; *)
(*   SpecRace     two summarize_webpage calls running at the same time.    *)
(***************************************************************************)
EXTENDS Integers, Sequences, FiniteSets, TLC

VARIABLES
    hourly_limit,       \* RateLimiter.hourly_limit
    daily_limit,        \* RateLimiter.daily_limit
    cooldown_seconds,   \* RateLimiter.cooldown_seconds
    now,                \* the value time.time() returns, in ticks
    advances,           \* how often the clock has advanced
    rate_files,         \* .rate_limits/ip_<clean_ip>.json, by file name
    cache_files,        \* .cache/<md5(url)>.json, by cache key
    last_check,         \* the last backend check_rate_limit call and its result
    recorded,           \* number of record_request calls made so far
    pc,                 \* position of each summarize_webpage call
    call,               \* locals of each summarize_webpage call
    response,           \* what each summarize_webpage call returned
    cache_enabled,      \* URLCache.cache_enabled of src/backend/cache.py
    cache_log,          \* the last URLCache.set and the last URLCache.get after it
    calls               \* number of cache.set / summarize_webpage calls made so far

cfg_vars == <<hourly_limit, daily_limit, cooldown_seconds>>
app_vars == <<pc, call, response>>
aux_vars == <<cache_enabled, cache_log, calls>>
vars == <<hourly_limit, daily_limit, cooldown_seconds, now, advances,
          rate_files, cache_files, last_check, recorded, pc, call, response,
          cache_enabled, cache_log, calls>>

----------------------------------------------------------------------------
(* Bounds of the model *)

TicksPerSecond == 2
MaxHourly == 2
MaxDaily == 2
MaxCooldown == 1
MaxAdvances == 3
MaxRecorded == 2
MaxCalls == 2
StartClock == 2000

(* Program constants *)

HourSeconds == 3600
MinuteSeconds == 60
DaySeconds == 24 * 3600
cache_hours == 24

Sec(s) == s * TicksPerSecond

\* int(x) for x = num / den: truncation toward zero
IntTrunc(num, den) ==
    IF num >= 0 THEN num \div den ELSE -((-num) \div den)

\* math.ceil(x) for x = num / den
Ceil(num, den) == -((-num) \div den)

Max(a, b) == IF a >= b THEN a ELSE b

RECURSIVE SeqMin(_)
SeqMin(s) ==
    IF Len(s) = 1 THEN s[1]
    ELSE LET m == SeqMin(Tail(s)) IN IF s[1] <= m THEN s[1] ELSE m

RECURSIVE Filter(_, _)
\* [x for x in s if x > cutoff]
Filter(s, cutoff) ==
    IF s = <<>> THEN <<>>
    ELSE IF s[1] > cutoff THEN <<s[1]>> \o Filter(Tail(s), cutoff)
         ELSE Filter(Tail(s), cutoff)

----------------------------------------------------------------------------
(* Client identifiers, URLs and the files that hold their records *)

\* client identifiers are strings; a string is the sequence of its characters
Clients == { <<"a", ".", "b">>, <<"a", ":", "b">>, <<"c">> }

\* the clients that call summarize_webpage
AppClients == { <<"a", ".", "b">> }

Urls == { "u1", "u2" }

\* what the LLM may answer; the empty string is a possible completion
Summaries == { "", "s" }

get_ip_file(ip_address) ==
    [i \in DOMAIN ip_address |->
        IF ip_address[i] \in {".", ":"} THEN "_" ELSE ip_address[i]]

RateFileNames == { get_ip_file(c) : c \in Clients }

\* hashlib.md5(url).hexdigest(): one key per URL string
get_cache_key(url) == <<"md5", url>>

CacheKeys == { get_cache_key(u) : u \in Urls }

\* contents of a file
AbsentFile == [kind |-> "absent"]

\* json.dump(data, f) of a limiter record
RecordFile(requests, last_request) ==
    [kind |-> "dict", has_requests |-> TRUE, has_last |-> TRUE,
     requests |-> requests, last_request |-> last_request]

DefaultData == RecordFile(<<>>, 0)

IsRecord(f) == f.kind = "dict" /\ f.has_requests /\ f.has_last

----------------------------------------------------------------------------
(* RateLimiter helpers, the same in both copies *)

\* a mutation of cleanup_old_requests: no request is ever dropped
cleanup_old_requests_keeps_all(requests_data, current_time) == requests_data

\* a mutation of cleanup_old_requests: a request exactly 24 hours old is kept
cleanup_old_requests_inclusive(requests_data, current_time) ==
    LET cutoff_time == current_time - Sec(DaySeconds)
    IN  SelectSeq(requests_data, LAMBDA req_time : req_time >= cutoff_time)

cleanup_old_requests(requests_data, current_time) ==
    LET cutoff_time == current_time - Sec(DaySeconds)
    IN  Filter(requests_data, cutoff_time)

load_ip_data(ip_file) ==
    IF ip_file.kind \in {"absent", "garbage"} THEN DefaultData ELSE ip_file

\* a mutation of get_usage_stats: the remaining fields are not floored at 0
get_usage_stats_unfloored(requests, current_time) ==
    LET hour_ago == current_time - Sec(HourSeconds)
        hourly_count == Len(Filter(requests, hour_ago))
        daily_count == Len(requests)
    IN  [hourly_used |-> hourly_count,
         hourly_limit |-> hourly_limit,
         daily_used |-> daily_count,
         daily_limit |-> daily_limit,
         hourly_remaining |-> hourly_limit - hourly_count,
         daily_remaining |-> daily_limit - daily_count]

get_usage_stats(requests, current_time) ==
    LET hour_ago == current_time - Sec(HourSeconds)
        hourly_count == Len(Filter(requests, hour_ago))
        daily_count == Len(requests)
    IN  [hourly_used |-> hourly_count,
         hourly_limit |-> hourly_limit,
         daily_used |-> daily_count,
         daily_limit |-> daily_limit,
         hourly_remaining |-> Max(0, hourly_limit - hourly_count),
         daily_remaining |-> Max(0, daily_limit - daily_count)]

\* data.get('last_request', 0)
LastRequestOr0(data) == IF data.has_last THEN data.last_request ELSE 0

----------------------------------------------------------------------------
(* RateLimiter of src/backend/rate_limiter.py *)

\* data['requests'] or data['last_request'] raises
DataRaises(data, current_time) ==
    \/ data.kind # "dict"
    \/ ~data.has_requests
    \/ /\ ~data.has_last
       /\ current_time - 0 < Sec(cooldown_seconds)

get_reminder_cooldown(data, current_time) ==
    IF current_time - LastRequestOr0(data) < Sec(cooldown_seconds)
    THEN IntTrunc(Sec(cooldown_seconds) - (current_time - data.last_request),
                  TicksPerSecond)
    ELSE 0

get_next_reset(data, current_time) ==
    LET hour_ago == current_time - Sec(HourSeconds)
        hourly_requests == Filter(data.requests, hour_ago)
    IN  IF Len(hourly_requests) >= hourly_limit
        THEN IntTrunc(SeqMin(hourly_requests) + Sec(HourSeconds) - current_time,
                      Sec(MinuteSeconds))
        ELSE IF Len(data.requests) >= daily_limit
        THEN IntTrunc(SeqMin(data.requests) + Sec(DaySeconds) - current_time,
                      Sec(HourSeconds))
        ELSE 0

\* a mutation of limit_type_of: a limit that is reached is named before the
\* cooldown
limit_type_of_limits_first(is_valid, reminder_cooldown, next_reset) ==
    IF is_valid THEN "NONE"
    ELSE IF next_reset > 0
    THEN (IF next_reset < 60 THEN "HOURLY_LIMIT" ELSE "DAILY_LIMIT")
    ELSE "COOLDOWN"

limit_type_of(is_valid, reminder_cooldown, next_reset) ==
    IF is_valid THEN "NONE"
    ELSE IF reminder_cooldown > 0 THEN "COOLDOWN"
    ELSE IF next_reset < 60 THEN "HOURLY_LIMIT"
    ELSE "DAILY_LIMIT"

RaisedResult ==
    [raised |-> TRUE, valid |-> FALSE, limit_type |-> "NONE",
     remaining_cooldown |-> 0, next_reset |-> 0, stats |-> <<>>]

check_rate_limit(ip_file, current_time) ==
    LET loaded == load_ip_data(ip_file)
    IN  IF DataRaises(loaded, current_time) THEN RaisedResult
        ELSE
        LET data == [loaded EXCEPT
                        !.requests = cleanup_old_requests(@, current_time)]
            reminder_cooldown == get_reminder_cooldown(data, current_time)
            next_reset == get_next_reset(data, current_time)
            is_valid == reminder_cooldown = 0 /\ next_reset = 0
        IN  [raised |-> FALSE,
             valid |-> is_valid,
             limit_type |-> limit_type_of(is_valid, reminder_cooldown, next_reset),
             remaining_cooldown |-> reminder_cooldown,
             next_reset |-> next_reset,
             stats |-> get_usage_stats(data.requests, current_time)]

\* a mutation of record_request: the appended list is written without cleanup
record_request_data_no_cleanup(ip_file, current_time) ==
    LET loaded == load_ip_data(ip_file)
    IN  [loaded EXCEPT !.requests = Append(@, current_time),
                       !.last_request = current_time,
                       !.has_last = TRUE]

\* the record record_request writes: load, append, set last_request, clean up
record_request_data(ip_file, current_time) ==
    LET loaded == load_ip_data(ip_file)
        appended == [loaded EXCEPT !.requests = Append(@, current_time),
                                   !.last_request = current_time,
                                   !.has_last = TRUE]
    IN  [appended EXCEPT !.requests = cleanup_old_requests(@, current_time)]

----------------------------------------------------------------------------
(* The clock *)

\* the amounts by which the clock is seen to advance between two readings:
\* a fraction of a second, just under an hour, just over 23 hours
Steps == { 1, Sec(HourSeconds) - 1, Sec(DaySeconds - HourSeconds) + 1 }

\* while a summarize_webpage call is running the clock moves by fractions of
\* a second; between calls by any of the steps
Tick ==
    /\ advances < MaxAdvances
    /\ \E d \in Steps :
          /\ (\E p \in DOMAIN pc : pc[p] # "idle") => d = 1
          /\ now' = now + d
    /\ advances' = advances + 1
    /\ UNCHANGED <<cfg_vars, aux_vars, rate_files, cache_files, last_check, recorded,
                   app_vars>>

----------------------------------------------------------------------------
(* Backend limiter operations *)

NoCheck == [done |-> FALSE]

NoCacheLog == [set |-> [done |-> FALSE], get |-> [done |-> FALSE]]

InitCommon ==
    /\ cache_enabled = TRUE
    /\ cache_log = NoCacheLog
    /\ calls = 0
    /\ hourly_limit \in 1..MaxHourly
    /\ daily_limit \in 1..MaxDaily
    /\ cooldown_seconds \in 0..MaxCooldown
    /\ advances = 0
    /\ rate_files = [f \in RateFileNames |-> AbsentFile]
    /\ cache_files = [k \in CacheKeys |-> AbsentFile]
    /\ last_check = NoCheck
    /\ recorded = 0

\* a mutation of check_rate_limit: the cleaned request list is written back
BCheck_persists_cleanup(ip_address) ==
    LET ip_file == get_ip_file(ip_address)
    IN  /\ last_check' = [done |-> TRUE,
                          ip |-> ip_address,
                          at |-> now,
                          file |-> rate_files[ip_file],
                          result |-> check_rate_limit(rate_files[ip_file], now),
                          recorded |-> FALSE]
        /\ rate_files' = [rate_files EXCEPT ![ip_file] =
                             IF @.kind = "dict"
                             THEN [@ EXCEPT !.requests = cleanup_old_requests(@, now)]
                             ELSE @]
        /\ UNCHANGED <<cfg_vars, aux_vars, now, advances, cache_files,
                       recorded, app_vars>>

\* check_rate_limit() for the client IPExtractor.get_client_ip() returns
BCheck(ip_address) ==
    LET ip_file == get_ip_file(ip_address)
    IN  /\ last_check' = [done |-> TRUE,
                          ip |-> ip_address,
                          at |-> now,
                          file |-> rate_files[ip_file],
                          result |-> check_rate_limit(rate_files[ip_file], now),
                          recorded |-> FALSE]
        /\ UNCHANGED <<cfg_vars, aux_vars, now, advances, rate_files, cache_files,
                       recorded, app_vars>>

\* the caller records a request only after check_rate_limit allowed it
CallerMayRecord ==
    /\ last_check.done
    /\ ~last_check.result.raised
    /\ last_check.result.valid
    /\ ~last_check.recorded

\* record_request(ip_address)
BRecord ==
    /\ CallerMayRecord
    /\ recorded < MaxRecorded
    /\ LET ip_file == get_ip_file(last_check.ip)
       IN  rate_files' = [rate_files EXCEPT
                            ![ip_file] = record_request_data(@, now)]
    /\ last_check' = [last_check EXCEPT !.recorded = TRUE]
    /\ recorded' = recorded + 1
    /\ UNCHANGED <<cfg_vars, aux_vars, now, advances, cache_files, app_vars>>

InitBackend ==
    /\ InitCommon
    /\ now \in {0, StartClock}
    /\ pc = <<>>
    /\ call = <<>>
    /\ response = <<>>

NextBackend ==
    \/ Tick
    \/ \E c \in Clients : BCheck(c)
    \/ BRecord

SpecBackend == InitBackend /\ [][NextBackend]_vars

----------------------------------------------------------------------------
(* RateLimiter of src/app.py *)

\* a mutation of App_hourly_limit_reached: > where the code has >=
App_hourly_limit_reached_strict(hourly_requests) ==
    Len(hourly_requests) > hourly_limit

\* if len(hourly_requests) >= self.hourly_limit
App_hourly_limit_reached(hourly_requests) ==
    Len(hourly_requests) >= hourly_limit

App_check_rate_limit(ip_file, current_time) ==
    LET loaded == load_ip_data(ip_file)
    IN  IF DataRaises(loaded, current_time)
        THEN [raised |-> TRUE, allowed |-> FALSE, message |-> "raised",
              wait |-> 0, stats |-> <<>>]
        ELSE
        LET data == [loaded EXCEPT
                        !.requests = cleanup_old_requests(@, current_time)]
            stats == get_usage_stats(data.requests, current_time)
            hour_ago == current_time - Sec(HourSeconds)
            hourly_requests == Filter(data.requests, hour_ago)
        IN  IF current_time - LastRequestOr0(data) < Sec(cooldown_seconds)
            THEN [raised |-> FALSE, allowed |-> FALSE, message |-> "cooldown",
                  wait |-> IntTrunc(Sec(cooldown_seconds)
                                      - (current_time - data.last_request),
                                    TicksPerSecond),
                  stats |-> stats]
            ELSE IF App_hourly_limit_reached(hourly_requests)
            THEN [raised |-> FALSE, allowed |-> FALSE, message |-> "hourly",
                  wait |-> IntTrunc(SeqMin(hourly_requests) + Sec(HourSeconds)
                                      - current_time,
                                    Sec(MinuteSeconds)),
                  stats |-> stats]
            ELSE IF Len(data.requests) >= daily_limit
            THEN [raised |-> FALSE, allowed |-> FALSE, message |-> "daily",
                  wait |-> IntTrunc(SeqMin(data.requests) + Sec(DaySeconds)
                                      - current_time,
                                    Sec(HourSeconds)),
                  stats |-> stats]
            ELSE [raised |-> FALSE, allowed |-> TRUE, message |-> "allowed",
                  wait |-> 0, stats |-> stats]

----------------------------------------------------------------------------
(* URLCache of src/app.py *)

\* json.dump of a cache entry
CacheEntry(url, summary, timestamp) ==
    [kind |-> "dict", has_timestamp |-> TRUE, has_summary |-> TRUE,
     url |-> url, summary |-> summary, timestamp |-> timestamp]

\* a mutation of URLCache_get: an entry exactly at the TTL has expired
URLCache_get_expired_at_ttl(cache_file, current_time) ==
    IF cache_file.kind = "absent"
    THEN [raised |-> FALSE, is_none |-> TRUE, value |-> "", file |-> cache_file]
    ELSE IF cache_file.kind = "garbage"
    THEN [raised |-> FALSE, is_none |-> TRUE, value |-> "", file |-> AbsentFile]
    ELSE IF cache_file.kind # "dict"
    THEN [raised |-> TRUE, is_none |-> TRUE, value |-> "", file |-> cache_file]
    ELSE
    LET cache_time == IF cache_file.has_timestamp THEN cache_file.timestamp ELSE 0
    IN  IF current_time - cache_time >= Sec(cache_hours * 3600)
        THEN [raised |-> FALSE, is_none |-> TRUE, value |-> "", file |-> AbsentFile]
        ELSE IF cache_file.has_summary
        THEN [raised |-> FALSE, is_none |-> FALSE, value |-> cache_file.summary,
              file |-> cache_file]
        ELSE [raised |-> FALSE, is_none |-> TRUE, value |-> "", file |-> cache_file]

\* what URLCache.get returns and the file it leaves behind;
\* is_none: the value returned is None
URLCache_get(cache_file, current_time) ==
    IF cache_file.kind = "absent"
    THEN [raised |-> FALSE, is_none |-> TRUE, value |-> "", file |-> cache_file]
    ELSE IF cache_file.kind = "garbage"
    THEN [raised |-> FALSE, is_none |-> TRUE, value |-> "", file |-> AbsentFile]
    ELSE IF cache_file.kind # "dict"
    THEN [raised |-> TRUE, is_none |-> TRUE, value |-> "", file |-> cache_file]
    ELSE
    LET cache_time == IF cache_file.has_timestamp THEN cache_file.timestamp ELSE 0
    IN  IF current_time - cache_time > Sec(cache_hours * 3600)
        THEN [raised |-> FALSE, is_none |-> TRUE, value |-> "", file |-> AbsentFile]
        ELSE IF cache_file.has_summary
        THEN [raised |-> FALSE, is_none |-> FALSE, value |-> cache_file.summary,
              file |-> cache_file]
        ELSE [raised |-> FALSE, is_none |-> TRUE, value |-> "", file |-> cache_file]

\* the Python truth value of what URLCache.get returned
Truthy(got) == ~got.is_none /\ got.value # ""

URLCache_set(url, summary, current_time) == CacheEntry(url, summary, current_time)

----------------------------------------------------------------------------
(* summarize_webpage of src/app.py *)

Procs == { "p1" }

NoResponse == [kind |-> "none"]

NoAppCheck == [raised |-> FALSE, allowed |-> FALSE, message |-> "none",
               wait |-> 0, stats |-> <<>>]

\* the string a cache hit returns
CachedResponse(cached_summary) == [kind |-> "cached", summary |-> cached_summary]

\* the string a denial returns: the limiter's message and the usage stats
DeniedResponse(check) ==
    [kind |-> "denied", message |-> check.message, wait |-> check.wait,
     stats |-> check.stats]

\* the string a success returns: the summary and the usage footer
SuccessResponse(summary, current_time) ==
    LET updated_stats ==
            get_usage_stats(<<current_time>>
                              \o cleanup_old_requests(<<>>, current_time),
                            current_time)
    IN  [kind |-> "success", summary |-> summary, stats |-> updated_stats]

ErrorResponse == [kind |-> "error"]

\* the exception leaves summarize_webpage
EscapedResponse == [kind |-> "escaped"]

\* the classes of the exceptions the steps of summarize_webpage raise;
\* each is a subclass of Exception
ExceptionClasses ==
    { "AttributeError", "TypeError", "KeyError", "RequestException",
      "OpenAIError" }

\* a mutation of summarize_catches: except (json.JSONDecodeError, KeyError)
summarize_catches_key_errors(exc) == exc \in { "JSONDecodeError", "KeyError" }

\* except Exception as e
summarize_catches(exc) == exc \in ExceptionClasses

\* what a call returns when one of its steps raises exc
OnException(exc) ==
    IF summarize_catches(exc) THEN ErrorResponse ELSE EscapedResponse

\* the exception URLCache.get raises on a file that holds JSON other than
\* an object: data.get of a list
URLCache_get_exception(cache_file) == "AttributeError"

\* the exception the limiter raises on a record it cannot index
limiter_exception(data) ==
    IF data.kind # "dict" THEN "TypeError" ELSE "KeyError"

InFlight == { p \in Procs : pc[p] # "idle" }

\* a request arrives: url and the client address taken from the request
Start(p, client_ip, url) ==
    /\ pc[p] = "idle"
    /\ InFlight = {}
    /\ pc' = [pc EXCEPT ![p] = "cache_get"]
    /\ call' = [call EXCEPT ![p] =
                    [client |-> client_ip, url |-> url,
                     before_rate |-> rate_files, before_cache |-> cache_files,
                     got_at |-> -1, entry_seen |-> AbsentFile,
                     cached |-> FALSE, check |-> NoAppCheck,
                     recorded_at |-> -1, crawled |-> FALSE, summary |-> ""]]
    /\ UNCHANGED <<cfg_vars, aux_vars, now, advances, rate_files, cache_files,
                   last_check, recorded, response>>

\* cached_summary = cache.get(url); if cached_summary: return ...
CacheGet(p) ==
    /\ pc[p] = "cache_get"
    /\ LET key == get_cache_key(call[p].url)
           got == URLCache_get(cache_files[key], now)
       IN  /\ cache_files' = [cache_files EXCEPT ![key] = got.file]
           /\ IF got.raised
              THEN /\ response' = [response EXCEPT ![p] =
                                    OnException(URLCache_get_exception(cache_files[key]))]
                   /\ pc' = [pc EXCEPT ![p] = "done"]
                   /\ call' = [call EXCEPT ![p].got_at = now,
                                           ![p].entry_seen = cache_files[key]]
              ELSE IF Truthy(got)
              THEN /\ response' = [response EXCEPT ![p] = CachedResponse(got.value)]
                   /\ pc' = [pc EXCEPT ![p] = "done"]
                   /\ call' = [call EXCEPT ![p].got_at = now,
                                           ![p].entry_seen = cache_files[key],
                                           ![p].cached = TRUE]
              ELSE /\ response' = response
                   /\ pc' = [pc EXCEPT ![p] = "check"]
                   /\ call' = [call EXCEPT ![p].got_at = now,
                                           ![p].entry_seen = cache_files[key]]
    /\ UNCHANGED <<cfg_vars, aux_vars, now, advances, rate_files, last_check, recorded>>

\* a mutation of CheckLimit: the request is recorded before the decision is
\* looked at, so a denied request is recorded too
CheckLimit_record_first(p) ==
    /\ pc[p] = "check"
    /\ LET check == App_check_rate_limit(rate_files[get_ip_file(call[p].client)], now)
       IN  /\ call' = [call EXCEPT ![p].check = check]
           /\ IF check.raised
              THEN /\ response' = [response EXCEPT ![p] =
                        OnException(limiter_exception(
                            load_ip_data(rate_files[get_ip_file(call[p].client)])))]
                   /\ pc' = [pc EXCEPT ![p] = "done"]
                   /\ rate_files' = rate_files
              ELSE IF ~check.allowed
              THEN /\ response' = [response EXCEPT ![p] = DeniedResponse(check)]
                   /\ pc' = [pc EXCEPT ![p] = "done"]
                   /\ rate_files' = [rate_files EXCEPT
                         ![get_ip_file(call[p].client)] = record_request_data(@, now)]
              ELSE /\ response' = response
                   /\ pc' = [pc EXCEPT ![p] = "record"]
                   /\ rate_files' = rate_files
    /\ UNCHANGED <<cfg_vars, aux_vars, now, advances, cache_files, last_check, recorded>>

\* a mutation of CheckLimit: the decision of the limiter is ignored
CheckLimit_ignores_decision(p) ==
    /\ pc[p] = "check"
    /\ LET check == App_check_rate_limit(rate_files[get_ip_file(call[p].client)], now)
       IN  /\ call' = [call EXCEPT ![p].check = check]
           /\ IF check.raised
              THEN /\ response' = [response EXCEPT ![p] = ErrorResponse]
                   /\ pc' = [pc EXCEPT ![p] = "done"]
              ELSE /\ response' = response
                   /\ pc' = [pc EXCEPT ![p] = "record"]
    /\ UNCHANGED <<cfg_vars, aux_vars, now, advances, rate_files, cache_files,
                   last_check, recorded>>

\* allowed, message, stats = rate_limiter.check_rate_limit(client_ip)
CheckLimit(p) ==
    /\ pc[p] = "check"
    /\ LET check == App_check_rate_limit(rate_files[get_ip_file(call[p].client)], now)
       IN  /\ call' = [call EXCEPT ![p].check = check]
           /\ IF check.raised
              THEN /\ response' = [response EXCEPT ![p] =
                        OnException(limiter_exception(
                            load_ip_data(rate_files[get_ip_file(call[p].client)])))]
                   /\ pc' = [pc EXCEPT ![p] = "done"]
              ELSE IF ~check.allowed
              THEN /\ response' = [response EXCEPT ![p] = DeniedResponse(check)]
                   /\ pc' = [pc EXCEPT ![p] = "done"]
              ELSE /\ response' = response
                   /\ pc' = [pc EXCEPT ![p] = "record"]
    /\ UNCHANGED <<cfg_vars, aux_vars, now, advances, rate_files, cache_files,
                   last_check, recorded>>

\* a mutation of RecordRequest: the request is recorded a second time
RecordRequest_twice(p) ==
    /\ pc[p] = "record"
    /\ recorded < MaxRecorded
    /\ rate_files' = [rate_files EXCEPT
                        ![get_ip_file(call[p].client)] =
                            record_request_data(record_request_data(@, now), now)]
    /\ recorded' = recorded + 1
    /\ call' = [call EXCEPT ![p].recorded_at = now]
    /\ pc' = [pc EXCEPT ![p] = "external"]
    /\ UNCHANGED <<cfg_vars, aux_vars, now, advances, cache_files, last_check, response>>

\* rate_limiter.record_request(client_ip)
RecordRequest(p) ==
    /\ pc[p] = "record"
    /\ recorded < MaxRecorded
    /\ rate_files' = [rate_files EXCEPT
                        ![get_ip_file(call[p].client)] = record_request_data(@, now)]
    /\ recorded' = recorded + 1
    /\ call' = [call EXCEPT ![p].recorded_at = now]
    /\ pc' = [pc EXCEPT ![p] = "external"]
    /\ UNCHANGED <<cfg_vars, aux_vars, now, advances, cache_files, last_check, response>>

\* a mutation of ExternalFails: the failed request's quota slot is given back
ExternalFails_refund(p) ==
    /\ pc[p] = "external"
    /\ call' = [call EXCEPT ![p].crawled = TRUE]
    /\ \E exc \in { "RequestException", "OpenAIError" } :
          response' = [response EXCEPT ![p] = OnException(exc)]
    /\ pc' = [pc EXCEPT ![p] = "done"]
    /\ rate_files' = call[p].before_rate
    /\ UNCHANGED <<cfg_vars, aux_vars, now, advances, cache_files, last_check, recorded>>

\* crawler.crawl(url) or llm_client.generate_text(...) raises
ExternalFails(p) ==
    /\ pc[p] = "external"
    /\ call' = [call EXCEPT ![p].crawled = TRUE]
    /\ \E exc \in { "RequestException", "OpenAIError" } :
          response' = [response EXCEPT ![p] = OnException(exc)]
    /\ pc' = [pc EXCEPT ![p] = "done"]
    /\ UNCHANGED <<cfg_vars, aux_vars, now, advances, rate_files, cache_files,
                   last_check, recorded>>

\* summary = llm_client.generate_text(...)
ExternalReturns(p, summary) ==
    /\ pc[p] = "external"
    /\ call' = [call EXCEPT ![p].crawled = TRUE, ![p].summary = summary]
    /\ pc' = [pc EXCEPT ![p] = "cache_set"]
    /\ UNCHANGED <<cfg_vars, aux_vars, now, advances, rate_files, cache_files,
                   last_check, recorded, response>>

\* cache.set(url, summary); return summary and the usage footer
CacheSet(p) ==
    /\ pc[p] = "cache_set"
    /\ cache_files' = [cache_files EXCEPT
                         ![get_cache_key(call[p].url)] =
                             URLCache_set(call[p].url, call[p].summary, now)]
    /\ response' = [response EXCEPT ![p] = SuccessResponse(call[p].summary, now)]
    /\ pc' = [pc EXCEPT ![p] = "done"]
    /\ UNCHANGED <<cfg_vars, aux_vars, now, advances, rate_files, last_check, recorded, call>>

IdleProc == [client |-> <<>>, url |-> ""]

\* the caller has taken the response
Finish(p) ==
    /\ pc[p] = "done"
    /\ pc' = [pc EXCEPT ![p] = "idle"]
    /\ call' = [call EXCEPT ![p] = IdleProc]
    /\ response' = [response EXCEPT ![p] = NoResponse]
    /\ UNCHANGED <<cfg_vars, aux_vars, now, advances, rate_files, cache_files,
                   last_check, recorded>>

Init ==
    /\ InitCommon
    /\ now = StartClock
    /\ pc = [p \in Procs |-> "idle"]
    /\ call = [p \in Procs |-> IdleProc]
    /\ response = [p \in Procs |-> NoResponse]

Next ==
    \/ Tick
    \/ \E p \in Procs, c \in AppClients, u \in Urls : Start(p, c, u)
    \/ \E p \in Procs : CacheGet(p)
    \/ \E p \in Procs : CheckLimit(p)
    \/ \E p \in Procs : RecordRequest(p)
    \/ \E p \in Procs : ExternalFails(p)
    \/ \E p \in Procs, s \in Summaries : ExternalReturns(p, s)
    \/ \E p \in Procs : CacheSet(p)
    \/ \E p \in Procs : Finish(p)

Spec == Init /\ [][Next]_vars

----------------------------------------------------------------------------
(* URLCache of src/backend/cache.py *)

\* a file whose content is not JSON
GarbageFile == [kind |-> "garbage"]

\* a file whose content is JSON but not an object
ListFile == [kind |-> "list"]

\* what a cache file left by an earlier run or damaged on disk may hold
InitialCacheFiles ==
    { AbsentFile, GarbageFile, ListFile,
      [kind |-> "dict", has_timestamp |-> FALSE, has_summary |-> TRUE,
       url |-> "u1", summary |-> "s", timestamp |-> 0],
      [kind |-> "dict", has_timestamp |-> TRUE, has_summary |-> FALSE,
       url |-> "u1", summary |-> "", timestamp |-> StartClock] }

\* how open(cache_file, 'w') followed by json.dump can end: the entry is
\* written; open raises and the file is untouched; json.dump raises after
\* open has truncated the file, which is left without a complete JSON text
WriteOutcomes == { "written", "open_fails", "dump_fails" }

\* the file a write leaves behind
WriteFile(old_file, new_file, outcome) ==
    IF outcome = "written" THEN new_file
    ELSE IF outcome = "open_fails" THEN old_file
    ELSE GarbageFile

\* a complete entry, as URLCache.set writes it
IsEntry(f) == f.kind = "dict" /\ f.has_timestamp /\ f.has_summary

\* the state of a cache file at a time: absent, valid, expired or corrupt
EntryState(f, t) ==
    IF f.kind = "absent" THEN "absent"
    ELSE IF ~IsEntry(f) THEN "corrupt"
    ELSE IF t - f.timestamp <= Sec(cache_hours * 3600) THEN "valid"
    ELSE "expired"

\* URLCache.get of the backend: None when caching is disabled
Backend_URLCache_get(cache_file, current_time) ==
    IF ~cache_enabled
    THEN [raised |-> FALSE, is_none |-> TRUE, value |-> "", file |-> cache_file]
    ELSE URLCache_get(cache_file, current_time)

\* a mutation of Backend_URLCache_set: an entry that exists keeps its timestamp
Backend_URLCache_set_keep_time(cache_file, url, summary, current_time, outcome) ==
    IF ~cache_enabled THEN cache_file
    ELSE WriteFile(cache_file,
                   IF cache_file.kind = "dict" /\ cache_file.has_timestamp
                   THEN CacheEntry(url, summary, cache_file.timestamp)
                   ELSE CacheEntry(url, summary, current_time),
                   outcome)

\* URLCache.set of the backend: the file it leaves behind
Backend_URLCache_set(cache_file, url, summary, current_time, outcome) ==
    IF ~cache_enabled THEN cache_file
    ELSE WriteFile(cache_file, CacheEntry(url, summary, current_time), outcome)

\* cache.set(url, summary)
KSet(url, summary, outcome) ==
    LET key == get_cache_key(url)
    IN  /\ calls < MaxCalls
        /\ calls' = calls + 1
        /\ cache_files' = [cache_files EXCEPT
                             ![key] = Backend_URLCache_set(@, url, summary,
                                                           now, outcome)]
        /\ cache_log' = [set |-> [done |-> TRUE, url |-> url,
                                  summary |-> summary, at |-> now,
                                  before |-> EntryState(cache_files[key], now),
                                  written |-> cache_enabled /\ outcome = "written"],
                         get |-> [done |-> FALSE]]
        /\ UNCHANGED <<cfg_vars, now, advances, rate_files, last_check,
                       recorded, app_vars, cache_enabled>>

\* cache.get(url)
KGet(url) ==
    LET key == get_cache_key(url)
        got == Backend_URLCache_get(cache_files[key], now)
    IN  /\ cache_files' = [cache_files EXCEPT ![key] = got.file]
        /\ cache_log' = [cache_log EXCEPT
                            !.get = [done |-> TRUE, url |-> url, at |-> now,
                                     seen |-> cache_files[key],
                                     raised |-> got.raised,
                                     is_none |-> got.is_none,
                                     value |-> got.value]]
        /\ UNCHANGED <<cfg_vars, now, advances, rate_files, last_check,
                       recorded, app_vars, cache_enabled, calls>>

\* URLCache(): when the cache directory cannot be created caching is disabled
\* and no cache file can be reached
InitCache ==
    /\ hourly_limit = 1
    /\ daily_limit = 1
    /\ cooldown_seconds = 0
    /\ now = StartClock
    /\ advances = 0
    /\ rate_files = [f \in RateFileNames |-> AbsentFile]
    /\ cache_enabled \in BOOLEAN
    /\ \E f \in InitialCacheFiles :
          cache_files = [k \in CacheKeys |->
                            IF cache_enabled /\ k = get_cache_key("u1")
                            THEN f ELSE AbsentFile]
    /\ cache_log = NoCacheLog
    /\ last_check = NoCheck
    /\ recorded = 0
    /\ calls = 0
    /\ pc = <<>>
    /\ call = <<>>
    /\ response = <<>>

NextCache ==
    \/ Tick
    \/ \E u \in Urls, s \in Summaries, o \in WriteOutcomes : KSet(u, s, o)
    \/ \E u \in Urls : KGet(u)

SpecCache == InitCache /\ [][NextCache]_vars

----------------------------------------------------------------------------
(* summarize_webpage of src/app.py over damaged files and failing writes *)

\* a record that lacks the requests field
NoRequestsFile ==
    [kind |-> "dict", has_requests |-> FALSE, has_last |-> TRUE,
     requests |-> <<>>, last_request |-> 0]

\* a record that lacks the last_request field
NoLastRequestFile ==
    [kind |-> "dict", has_requests |-> TRUE, has_last |-> FALSE,
     requests |-> <<>>, last_request |-> 0]

\* what a limiter record left by an earlier run or damaged on disk may hold
InitialRateFiles ==
    { AbsentFile, GarbageFile, ListFile, NoRequestsFile, NoLastRequestFile }

\* data['requests'].append(current_time) raises
record_request_raises(ip_file) ==
    LET loaded == load_ip_data(ip_file)
    IN  loaded.kind # "dict" \/ ~loaded.has_requests

StartF(p, client_ip, url) ==
    /\ pc[p] = "idle"
    /\ InFlight = {}
    /\ calls < MaxCalls
    /\ calls' = calls + 1
    /\ pc' = [pc EXCEPT ![p] = "cache_get"]
    /\ call' = [call EXCEPT ![p] =
                    [client |-> client_ip, url |-> url,
                     before_rate |-> rate_files, before_cache |-> cache_files,
                     got_at |-> -1, entry_seen |-> AbsentFile,
                     cached |-> FALSE, check |-> NoAppCheck,
                     recorded_at |-> -1, crawled |-> FALSE, summary |-> ""]]
    /\ UNCHANGED <<cfg_vars, now, advances, rate_files, cache_files,
                   last_check, recorded, response, cache_enabled, cache_log>>

\* rate_limiter.record_request(client_ip), its write ending in outcome
RecordRequestF(p, outcome) ==
    /\ pc[p] = "record"
    /\ recorded < MaxRecorded
    /\ LET ip_file == get_ip_file(call[p].client)
       IN  IF record_request_raises(rate_files[ip_file])
           THEN /\ response' = [response EXCEPT ![p] =
                        OnException(limiter_exception(
                            load_ip_data(rate_files[ip_file])))]
                /\ pc' = [pc EXCEPT ![p] = "done"]
                /\ UNCHANGED <<rate_files, recorded, call>>
           ELSE /\ rate_files' = [rate_files EXCEPT ![ip_file] =
                        WriteFile(@, record_request_data(@, now), outcome)]
                /\ recorded' = recorded + 1
                /\ call' = [call EXCEPT ![p].recorded_at = now]
                /\ pc' = [pc EXCEPT ![p] = "external"]
                /\ response' = response
    /\ UNCHANGED <<cfg_vars, aux_vars, now, advances, cache_files, last_check>>

\* cache.set(url, summary), its write ending in outcome; return the summary
\* and the usage footer
CacheSetF(p, outcome) ==
    /\ pc[p] = "cache_set"
    /\ cache_files' = [cache_files EXCEPT
                         ![get_cache_key(call[p].url)] =
                             WriteFile(@, URLCache_set(call[p].url,
                                                       call[p].summary, now),
                                       outcome)]
    /\ response' = [response EXCEPT ![p] = SuccessResponse(call[p].summary, now)]
    /\ pc' = [pc EXCEPT ![p] = "done"]
    /\ UNCHANGED <<cfg_vars, aux_vars, now, advances, rate_files, last_check,
                   recorded, call>>

InitFaults ==
    /\ hourly_limit = 1
    /\ daily_limit = 1
    /\ cooldown_seconds = MaxCooldown
    /\ now = StartClock
    /\ advances = 0
    /\ \E f \in InitialRateFiles :
          rate_files = [n \in RateFileNames |->
                            IF \E c \in AppClients : n = get_ip_file(c)
                            THEN f ELSE AbsentFile]
    /\ \E f \in InitialCacheFiles :
          cache_files = [k \in CacheKeys |->
                            IF k = get_cache_key("u1") THEN f ELSE AbsentFile]
    /\ cache_enabled = TRUE
    /\ cache_log = NoCacheLog
    /\ calls = 0
    /\ last_check = NoCheck
    /\ recorded = 0
    /\ pc = [p \in Procs |-> "idle"]
    /\ call = [p \in Procs |-> IdleProc]
    /\ response = [p \in Procs |-> NoResponse]

NextFaults ==
    \/ Tick
    \/ \E p \in Procs, c \in AppClients : StartF(p, c, "u1")
    \/ \E p \in Procs : CacheGet(p)
    \/ \E p \in Procs : CheckLimit(p)
    \/ \E p \in Procs, o \in WriteOutcomes : RecordRequestF(p, o)
    \/ \E p \in Procs : ExternalFails(p)
    \/ \E p \in Procs, s \in Summaries : ExternalReturns(p, s)
    \/ \E p \in Procs, o \in WriteOutcomes : CacheSetF(p, o)
    \/ \E p \in Procs : Finish(p)

SpecFaults == InitFaults /\ [][NextFaults]_vars

----------------------------------------------------------------------------
(* RateLimiter of src/backend/rate_limiter.py over damaged records and     *)
(* failing writes                                                          *)

\* the client whose record is damaged
StorageClients == { <<"c">> }

\* record_request(ip_address), its write ending in outcome
BRecordF(outcome) ==
    /\ CallerMayRecord
    /\ recorded < MaxRecorded
    /\ LET ip_file == get_ip_file(last_check.ip)
           raises == record_request_raises(rate_files[ip_file])
       IN  /\ rate_files' = [rate_files EXCEPT ![ip_file] =
                   IF raises THEN @
                   ELSE WriteFile(@, record_request_data(@, now), outcome)]
           /\ last_check' = [done |-> TRUE,
                             ip |-> last_check.ip,
                             at |-> last_check.at,
                             file |-> last_check.file,
                             result |-> last_check.result,
                             recorded |-> TRUE,
                             record_before |-> rate_files[ip_file],
                             record_raised |-> raises,
                             write |-> outcome]
    /\ recorded' = recorded + 1
    /\ UNCHANGED <<cfg_vars, aux_vars, now, advances, cache_files, app_vars>>

InitStorage ==
    /\ hourly_limit \in 1..MaxHourly
    /\ daily_limit \in 1..MaxDaily
    /\ cooldown_seconds \in 0..MaxCooldown
    /\ now \in {0, StartClock}
    /\ advances = 0
    /\ \E f \in InitialRateFiles :
          rate_files = [n \in RateFileNames |->
                            IF \E c \in StorageClients : n = get_ip_file(c)
                            THEN f ELSE AbsentFile]
    /\ cache_files = [k \in CacheKeys |-> AbsentFile]
    /\ cache_enabled = TRUE
    /\ cache_log = NoCacheLog
    /\ calls = 0
    /\ last_check = NoCheck
    /\ recorded = 0
    /\ pc = <<>>
    /\ call = <<>>
    /\ response = <<>>

NextStorage ==
    \/ Tick
    \/ \E c \in StorageClients : BCheck(c)
    \/ \E o \in WriteOutcomes : BRecordF(o)

SpecStorage == InitStorage /\ [][NextStorage]_vars

----------------------------------------------------------------------------
(* Concurrent calls of summarize_webpage, src/app.py *)

\* the calls Gradio runs at the same time
RaceProcs == { "p1", "p2" }

\* a request arrives while other calls may be running
StartR(p, client_ip, url) ==
    /\ pc[p] = "idle"
    /\ calls < MaxCalls
    /\ calls' = calls + 1
    /\ pc' = [pc EXCEPT ![p] = "cache_get"]
    /\ call' = [call EXCEPT ![p] =
                    [client |-> client_ip, url |-> url,
                     got_at |-> -1, entry_seen |-> AbsentFile,
                     cached |-> FALSE, check |-> NoAppCheck,
                     recorded_at |-> -1, crawled |-> FALSE, summary |-> "",
                     record_time |-> -1, loaded |-> AbsentFile]]
    /\ UNCHANGED <<cfg_vars, now, advances, rate_files, cache_files,
                   last_check, recorded, response, cache_enabled, cache_log>>

\* record_request up to the load: current_time = time.time(); data = json.load(f)
RecordLoad(p) ==
    /\ pc[p] = "record"
    /\ recorded < MaxRecorded
    /\ recorded' = recorded + 1
    /\ call' = [call EXCEPT
                  ![p].record_time = now,
                  ![p].loaded = rate_files[get_ip_file(call[p].client)]]
    /\ pc' = [pc EXCEPT ![p] = "record_write"]
    /\ UNCHANGED <<cfg_vars, aux_vars, now, advances, rate_files, cache_files,
                   last_check, response>>

\* a mutation of RecordWrite: last_request is set, the timestamp is not appended
RecordWrite_without_append(p) ==
    /\ pc[p] = "record_write"
    /\ rate_files' = [rate_files EXCEPT ![get_ip_file(call[p].client)] =
            [load_ip_data(call[p].loaded) EXCEPT
                !.last_request = call[p].record_time, !.has_last = TRUE]]
    /\ call' = [call EXCEPT ![p].recorded_at = call[p].record_time]
    /\ pc' = [pc EXCEPT ![p] = "external"]
    /\ UNCHANGED <<cfg_vars, aux_vars, now, advances, cache_files, last_check,
                   recorded, response>>

\* record_request from the append on: the record built from what was loaded
\* is written over the file
RecordWrite(p) ==
    /\ pc[p] = "record_write"
    /\ rate_files' = [rate_files EXCEPT ![get_ip_file(call[p].client)] =
            record_request_data(call[p].loaded, call[p].record_time)]
    /\ call' = [call EXCEPT ![p].recorded_at = call[p].record_time]
    /\ pc' = [pc EXCEPT ![p] = "external"]
    /\ UNCHANGED <<cfg_vars, aux_vars, now, advances, cache_files, last_check,
                   recorded, response>>

InitRace ==
    /\ hourly_limit = 1
    /\ daily_limit = 1
    /\ cooldown_seconds = MaxCooldown
    /\ now = StartClock
    /\ advances = 0
    /\ rate_files = [f \in RateFileNames |-> AbsentFile]
    /\ cache_files = [k \in CacheKeys |-> AbsentFile]
    /\ cache_enabled = TRUE
    /\ cache_log = NoCacheLog
    /\ calls = 0
    /\ last_check = NoCheck
    /\ recorded = 0
    /\ pc = [p \in RaceProcs |-> "idle"]
    /\ call = [p \in RaceProcs |-> IdleProc]
    /\ response = [p \in RaceProcs |-> NoResponse]

NextRace ==
    \/ Tick
    \/ \E p \in RaceProcs, c \in AppClients : StartR(p, c, "u1")
    \/ \E p \in RaceProcs : CacheGet(p)
    \/ \E p \in RaceProcs : CheckLimit(p)
    \/ \E p \in RaceProcs : RecordLoad(p)
    \/ \E p \in RaceProcs : RecordWrite(p)
    \/ \E p \in RaceProcs : ExternalFails(p)
    \/ \E p \in RaceProcs, s \in Summaries : ExternalReturns(p, s)
    \/ \E p \in RaceProcs : CacheSet(p)
    \/ \E p \in RaceProcs : Finish(p)

SpecRace == InitRace /\ [][NextRace]_vars

----------------------------------------------------------------------------
(* What the last backend check_rate_limit call saw, stated from the record *)
(* it loaded rather than from the limiter's own helpers                    *)

Checked == last_check.done /\ ~last_check.result.raised

CheckedData == load_ip_data(last_check.file)

CountAfter(s, cutoff) == Cardinality({ i \in DOMAIN s : s[i] > cutoff })

\* timestamps retained after the 24h cleanup
DailyCount == CountAfter(CheckedData.requests, last_check.at - Sec(DaySeconds))

\* retained timestamps inside the last hour
HourlyCount == CountAfter(CheckedData.requests, last_check.at - Sec(HourSeconds))

SinceLast == last_check.at - CheckedData.last_request

CooldownElapsed == SinceLast >= Sec(cooldown_seconds)

\* C1: check_rate_limit returns valid=true exactly when the cooldown has
\* elapsed, fewer than hourly_limit retained timestamps lie in the last hour
\* and fewer than daily_limit timestamps are retained.
C1_ValidIffWithinLimits ==
    (Checked /\ last_check.file.kind = "dict") =>
        (last_check.result.valid <=>
            /\ CooldownElapsed
            /\ HourlyCount < hourly_limit
            /\ DailyCount < daily_limit)

\* C2: with exactly hourly_limit recorded requests all still inside the last
\* hour and the cooldown elapsed, a later check is denied as HOURLY_LIMIT.
C2_HourlyLimitDenied ==
    ( /\ Checked
      /\ last_check.file.kind = "dict"
      /\ HourlyCount = hourly_limit
      /\ CooldownElapsed
      /\ last_check.at > CheckedData.last_request )
    => /\ ~last_check.result.valid
       /\ last_check.result.limit_type = "HOURLY_LIMIT"

\* C3: with exactly daily_limit recorded requests all still retained, the
\* cooldown elapsed and fewer than hourly_limit requests in the last hour,
\* the check is denied as DAILY_LIMIT.
C3_DailyLimitDenied ==
    ( /\ Checked
      /\ last_check.file.kind = "dict"
      /\ DailyCount = daily_limit
      /\ CooldownElapsed
      /\ HourlyCount < hourly_limit )
    => /\ ~last_check.result.valid
       /\ last_check.result.limit_type = "DAILY_LIMIT"

\* C4: a check made less than cooldown_seconds after the last recorded
\* request is denied as COOLDOWN with remaining_cooldown =
\* ceil(cooldown_seconds - (now - last_request)) >= 1.
C4_CooldownDeniedCeil ==
    ( /\ Checked
      /\ last_check.file.kind = "dict"
      /\ CheckedData.requests # <<>>
      /\ 0 <= SinceLast
      /\ SinceLast < Sec(cooldown_seconds) )
    => /\ ~last_check.result.valid
       /\ last_check.result.limit_type = "COOLDOWN"
       /\ last_check.result.remaining_cooldown =
            Ceil(Sec(cooldown_seconds) - SinceLast, TicksPerSecond)
       /\ last_check.result.remaining_cooldown >= 1

\* C5: the first check of a client that has no stored record is allowed,
\* whatever the limits and whatever the time.
C5_FirstCallAllowed ==
    (last_check.done /\ last_check.file.kind = "absent")
    => /\ ~last_check.result.raised
       /\ last_check.result.valid

----------------------------------------------------------------------------
(* summarize_webpage of src/app.py, one call in flight at a time *)

Done(p) == pc[p] = "done"

\* the timestamps of a record that lie in the window (t - width, t]
InWindow(requests, t, width) ==
    Cardinality({ i \in DOMAIN requests :
                    requests[i] > t - width /\ requests[i] <= t })

WithinLimits(f) ==
    IsRecord(f) =>
        \A i \in DOMAIN f.requests :
            /\ InWindow(f.requests, f.requests[i], Sec(HourSeconds)) <= hourly_limit
            /\ InWindow(f.requests, f.requests[i], Sec(DaySeconds)) <= daily_limit

\* C6: a persisted record never holds more than hourly_limit timestamps in a
\* window of 3600 seconds nor more than daily_limit timestamps in a window of
\* 86400 seconds, a window being the rolling window (t - width, t] that ends
\* at a timestamp t.
C6_RecordWithinLimits ==
    \A f \in RateFileNames : WithinLimits(rate_files[f])

\* a record that holds more timestamps than hourly_limit, no 3600 seconds
\* holding more than hourly_limit of them
C6_Witness ==
    \E f \in RateFileNames :
        /\ IsRecord(rate_files[f])
        /\ Len(rate_files[f].requests) > hourly_limit
        /\ \E i \in DOMAIN rate_files[f].requests :
              InWindow(rate_files[f].requests, rate_files[f].requests[i],
                       Sec(HourSeconds)) = hourly_limit

\* the entry cache.get read was a cache entry that had not expired
ValidEntry(e, t) ==
    /\ e.kind = "dict"
    /\ e.has_timestamp
    /\ e.has_summary
    /\ t - e.timestamp <= Sec(cache_hours * 3600)

GotValidEntry(p) ==
    /\ pc[p] # "idle"
    /\ call[p].got_at >= 0
    /\ ValidEntry(call[p].entry_seen, call[p].got_at)

\* C7: when the cache holds a non-expired entry for the url, whatever summary
\* it stores, the call returns the cached summary at once and leaves the
\* limiter records as they were.
C7_CacheHitBypassesLimiter ==
    \A p \in Procs :
        GotValidEntry(p) =>
            /\ Done(p)
            /\ response[p] = CachedResponse(call[p].entry_seen.summary)
            /\ rate_files = call[p].before_rate

Denied(p) == Done(p) /\ response[p].kind = "denied"

\* C8 as stated: after a denied call the limiter records and the cache are
\* what they were before the call.
C8_DeniedChangesNothing ==
    \A p \in Procs :
        Denied(p) =>
            /\ rate_files = call[p].before_rate
            /\ cache_files = call[p].before_cache

\* C8 as amended: a denied call makes no external call, records nothing and
\* sets no cache entry; the limiter records are what they were before the
\* call, and so is the cache, except that the entry of the requested url is
\* gone if cache.get found it expired or unreadable.
C8_DeniedChangesNothingButPurge ==
    \A p \in Procs :
        Denied(p) =>
            /\ ~call[p].crawled
            /\ call[p].recorded_at = -1
            /\ rate_files = call[p].before_rate
            /\ \A k \in CacheKeys :
                  \/ cache_files[k] = call[p].before_cache[k]
                  \/ /\ k = get_cache_key(call[p].url)
                     /\ cache_files[k] = AbsentFile
                     /\ ~ValidEntry(call[p].before_cache[k], call[p].got_at)

\* a denied call whose cache.get deleted the expired entry of its url
C8_Witness ==
    \E p \in Procs :
        /\ Denied(p)
        /\ call[p].before_cache[get_cache_key(call[p].url)] # AbsentFile
        /\ cache_files[get_cache_key(call[p].url)] = AbsentFile

\* C9: when the crawler or the LLM raises after the request was recorded, the
\* call returns an error, no cache entry is written for the url and the
\* timestamp record_request wrote stays in the client's record.
C9_FailureKeepsSlot ==
    \A p \in Procs :
        (Done(p) /\ call[p].recorded_at >= 0 /\ response[p].kind # "success") =>
            LET f == rate_files[get_ip_file(call[p].client)]
                k == get_cache_key(call[p].url)
            IN  /\ response[p] = ErrorResponse
                /\ \/ cache_files[k] = AbsentFile
                   \/ cache_files[k] = call[p].before_cache[k]
                /\ IsRecord(f)
                /\ \E i \in DOMAIN f.requests : f.requests[i] = call[p].recorded_at
                /\ f.last_request = call[p].recorded_at

\* a call that was recorded and whose external call then raised
C9_Witness ==
    \E p \in Procs :
        /\ Done(p)
        /\ call[p].recorded_at >= 0
        /\ call[p].crawled
        /\ response[p] = ErrorResponse

\* C10: the usage statistics of a success result are those check_rate_limit
\* returned for the same request.
C10_SuccessCarriesCheckStats ==
    \A p \in Procs :
        (Done(p) /\ response[p].kind = "success") =>
            response[p].stats = call[p].check.stats

----------------------------------------------------------------------------
(* URLCache of src/backend/cache.py, driven by set and get *)

TTL == Sec(cache_hours * 3600)

\* the last cache.set wrote its entry and a cache.get of the same url followed
SetThenGet ==
    /\ cache_log.set.done
    /\ cache_log.set.written
    /\ cache_log.get.done
    /\ cache_log.get.url = cache_log.set.url

\* C11: with caching enabled and a successful write, set(k, v) followed by
\* get(k) no later than the TTL after the set returns v, whatever the entry
\* of k was before the set: get finds the entry set wrote, stamped with the
\* time of the set.
C11_SetThenGetReturnsValue ==
    (SetThenGet /\ cache_log.get.at - cache_log.set.at <= TTL) =>
        /\ ~cache_log.get.raised
        /\ ~cache_log.get.is_none
        /\ cache_log.get.value = cache_log.set.summary
        /\ cache_log.get.seen = CacheEntry(cache_log.set.url,
                                           cache_log.set.summary,
                                           cache_log.set.at)

\* a set over an expired entry, then a get that returns the value set
C11_Witness ==
    /\ SetThenGet
    /\ cache_log.set.before = "expired"
    /\ ~cache_log.get.is_none
    /\ cache_log.get.value = cache_log.set.summary

\* the last cache.get found no file or a complete entry
GotEntryOrNothing ==
    /\ cache_log.get.done
    /\ \/ cache_log.get.seen.kind = "absent"
       \/ IsEntry(cache_log.get.seen)

GetAge == cache_log.get.at - cache_log.get.seen.timestamp

\* C12: get(k) returns the stored value exactly when an entry of k exists
\* whose age is at most the TTL, and leaves it in place; an entry older than
\* the TTL makes get return None and is deleted.
C12_GetValidIffWithinTTL ==
    GotEntryOrNothing =>
        LET seen == cache_log.get.seen
            left == cache_files[get_cache_key(cache_log.get.url)]
            hit == ~cache_log.get.is_none /\ cache_log.get.value = seen.summary
        IN  /\ ~cache_log.get.raised
            /\ hit <=> (IsEntry(seen) /\ GetAge <= TTL)
            /\ hit => left = seen
            /\ (IsEntry(seen) /\ GetAge > TTL) =>
                  (cache_log.get.is_none /\ left = AbsentFile)

\* a get that found an entry older than the TTL and deleted it
C12_Witness ==
    /\ cache_log.get.done
    /\ IsEntry(cache_log.get.seen)
    /\ GetAge > TTL
    /\ cache_log.get.is_none
    /\ cache_files[get_cache_key(cache_log.get.url)] = AbsentFile

----------------------------------------------------------------------------
(* Which timestamps count, src/backend/rate_limiter.py *)

\* C13: in check_rate_limit a recorded timestamp t counts toward daily_used
\* and the daily limit only if t > now - 86400, and toward hourly_used and
\* the hourly limit only if t > now - 3600, whatever older timestamps the
\* stored record still holds: the usage statistics are these counts, and a
\* limit is found reached only when one of these counts has reached it.
C13_OnlyRecentRequestsCount ==
    (Checked /\ last_check.file.kind = "dict") =>
        /\ last_check.result.stats.daily_used = DailyCount
        /\ last_check.result.stats.hourly_used = HourlyCount
        /\ last_check.result.next_reset # 0 =>
              (HourlyCount >= hourly_limit \/ DailyCount >= daily_limit)
        /\ last_check.result.limit_type \in {"HOURLY_LIMIT", "DAILY_LIMIT"} =>
              (HourlyCount >= hourly_limit \/ DailyCount >= daily_limit)

\* a check of a stored record whose timestamps would reach the daily limit
\* if those older than 24 hours counted, and which is allowed
C13_Witness ==
    /\ Checked
    /\ last_check.file.kind = "dict"
    /\ Len(last_check.file.requests) >= daily_limit
    /\ DailyCount < daily_limit
    /\ last_check.result.stats.daily_used < Len(last_check.file.requests)
    /\ last_check.result.valid

----------------------------------------------------------------------------
(* summarize_webpage over damaged files, failing writes and failing        *)
(* collaborators                                                           *)

Outcomes == { "cached", "denied", "success", "error" }

\* C14: whatever the cache file, the limiter record, the outcome of the
\* writes and of the external calls, a call of summarize_webpage ends with
\* exactly one of cache hit, denial, success or error as its response, the
\* kind the steps it went through lead to, and no exception leaves it.
C14_EveryCallResolves ==
    \A p \in Procs :
        /\ response[p] # EscapedResponse
        /\ pc[p] # "done" => response[p] = NoResponse
        /\ Done(p) =>
              /\ response[p].kind \in Outcomes
              /\ response[p].kind = "cached" <=> call[p].cached
              /\ response[p].kind = "denied" <=>
                    (call[p].check.message \in {"cooldown", "hourly", "daily"})
              /\ response[p].kind = "success" =>
                    (call[p].check.allowed /\ call[p].crawled)
              /\ response[p].kind = "error" =>
                    \/ call[p].check.raised
                    \/ call[p].crawled
                    \/ ~call[p].cached /\ call[p].check.message = "none"
                    \/ call[p].check.allowed /\ call[p].recorded_at = -1

\* a call that found a limiter record it could not index and ended in error
C14_Witness ==
    \E p \in Procs :
        /\ Done(p)
        /\ call[p].check.raised
        /\ call[p].before_rate[get_ip_file(call[p].client)] \in
              { ListFile, NoRequestsFile }
        /\ response[p] = ErrorResponse

----------------------------------------------------------------------------
(* src/backend/rate_limiter.py over damaged records and failing writes *)

\* the stored record is missing, is not JSON or lacks a field
Unreadable(f) ==
    \/ f.kind \in {"absent", "garbage"}
    \/ f.kind = "dict" /\ (~f.has_requests \/ ~f.has_last)

\* C15: when the stored record is missing, unparseable or lacks the requests
\* or the last_request field, check_rate_limit raises nothing and returns
\* what it returns for the empty default record.
C15_UnreadableRecordIsDefault ==
    (last_check.done /\ Unreadable(last_check.file)) =>
        /\ ~last_check.result.raised
        /\ last_check.result = check_rate_limit(DefaultData, last_check.at)

\* C16: when the write of record_request fails, nothing is raised and a later
\* check_rate_limit loads the stored record as it was before record_request
\* was called.
C16_FailedWriteKeepsRecord ==
    ( /\ last_check.done
      /\ last_check.recorded
      /\ last_check.write # "written"
      /\ IsRecord(last_check.record_before) )
    => /\ ~last_check.record_raised
       /\ load_ip_data(rate_files[get_ip_file(last_check.ip)])
            = load_ip_data(last_check.record_before)

----------------------------------------------------------------------------
(* Records of different clients, src/backend/rate_limiter.py *)

\* the step is a record_request of client c
RecordsFor(c) == recorded' = recorded + 1 /\ last_check.ip = c

\* C17: a record_request of one client leaves the stored record of every
\* other client identifier, and so what check_rate_limit answers it, as it
\* was.
C17_ClientsAreIsolated ==
    [][\A c, d \in Clients :
          (c # d /\ RecordsFor(c)) =>
              /\ rate_files'[get_ip_file(d)] = rate_files[get_ip_file(d)]
              /\ check_rate_limit(rate_files'[get_ip_file(d)], now)
                   = check_rate_limit(rate_files[get_ip_file(d)], now)]_vars

----------------------------------------------------------------------------
(* Concurrent calls of summarize_webpage for one client *)

\* the call went past check_rate_limit
Passed(p) ==
    \/ pc[p] \in {"record", "record_write", "external", "cache_set"}
    \/ pc[p] = "done" /\ call[p].record_time >= 0

\* the call has written its timestamp
Wrote(p) == pc[p] \in {"external", "cache_set", "done"} /\ call[p].recorded_at >= 0

\* the largest number of timestamps a record holds in a rolling hour
OverHourly(f, n) ==
    /\ IsRecord(f)
    /\ \E i \in DOMAIN f.requests :
          InWindow(f.requests, f.requests[i], Sec(HourSeconds)) > n

\* C18: nothing but the stored record decides a check: every call that went
\* past check_rate_limit was within the limits on the record it read, and
\* the calls in flight at the same time are what lets a record exceed
\* hourly_limit timestamps in a rolling hour, by at most one per other call.
C18_CheckThenRecordRaces ==
    /\ \A p \in RaceProcs :
          Passed(p) =>
              /\ call[p].check.allowed
              /\ call[p].check.stats.hourly_used < hourly_limit
              /\ call[p].check.stats.daily_used < daily_limit
    /\ \A f \in RateFileNames :
          ~OverHourly(rate_files[f], hourly_limit + Cardinality(RaceProcs) - 1)

\* two calls of one client that both read hourly_limit - 1 requests, were
\* both admitted and both recorded: the record holds more than hourly_limit
\* timestamps in a rolling hour
C18_Witness ==
    \E p, q \in RaceProcs :
        /\ p # q
        /\ Wrote(p) /\ Wrote(q)
        /\ call[p].client = call[q].client
        /\ call[p].check.stats.hourly_used = hourly_limit - 1
        /\ call[q].check.stats.hourly_used = hourly_limit - 1
        /\ OverHourly(rate_files[get_ip_file(call[p].client)], hourly_limit)

\* C19: a record_request leaves in the stored record the timestamp of the
\* call that wrote last, as last_request and among the requests, and the
\* record never holds more timestamps than record_request was called; when
\* two calls for one client interleave, the writes can leave only one of the
\* two new timestamps.
C19_LastWriterWins ==
    \A f \in RateFileNames :
        IsRecord(rate_files[f]) =>
            /\ \E i \in DOMAIN rate_files[f].requests :
                  rate_files[f].requests[i] = rate_files[f].last_request
            /\ Len(rate_files[f].requests) <= recorded

\* two calls of one client that loaded the same record and both wrote: the
\* stored record holds one timestamp more than what they loaded, not two
C19_Witness ==
    \E p, q \in RaceProcs :
        /\ p # q
        /\ Wrote(p) /\ Wrote(q)
        /\ call[p].client = call[q].client
        /\ call[p].loaded = call[q].loaded
        /\ LET f == rate_files[get_ip_file(call[p].client)]
           IN  /\ IsRecord(f)
               /\ Len(f.requests) = Len(load_ip_data(call[p].loaded).requests) + 1

----------------------------------------------------------------------------
(* The kind of a denial, src/backend/rate_limiter.py *)

\* C20: check_rate_limit names a denial in strict priority order: COOLDOWN
\* when the cooldown has not elapsed, whatever the counts; otherwise
\* HOURLY_LIMIT when the hourly count has reached hourly_limit, whatever the
\* daily count; DAILY_LIMIT only when the cooldown has elapsed, the hourly
\* count is below hourly_limit and the retained total has reached
\* daily_limit.
C20_DenialPriority ==
    (Checked /\ last_check.file.kind = "dict") =>
        /\ ~CooldownElapsed => last_check.result.limit_type = "COOLDOWN"
        /\ (CooldownElapsed /\ HourlyCount >= hourly_limit) =>
              last_check.result.limit_type = "HOURLY_LIMIT"
        /\ last_check.result.limit_type = "DAILY_LIMIT" =>
              /\ CooldownElapsed
              /\ HourlyCount < hourly_limit
              /\ DailyCount >= daily_limit

----------------------------------------------------------------------------
(* The wait a denial announces, src/backend/rate_limiter.py *)

Floor(num, den) == num \div den

\* the timestamps of the checked record that lie after cutoff
StampsAfter(cutoff) ==
    { CheckedData.requests[i] : i \in { j \in DOMAIN CheckedData.requests :
                                          CheckedData.requests[j] > cutoff } }

SetMin(S) == CHOOSE x \in S : \A y \in S : x <= y

HourlyStamps == StampsAfter(last_check.at - Sec(HourSeconds))

RetainedStamps == StampsAfter(last_check.at - Sec(DaySeconds))

\* C21: a result denied for the hourly limit carries next_reset =
\* floor((oldest timestamp within the last hour + 3600 - now) / 60), a number
\* of minutes in 0..60; a result denied for the daily limit carries
\* next_reset = floor((oldest retained timestamp + 86400 - now) / 3600), a
\* number of hours in 0..24.
C21_NextResetOfDenial ==
    (Checked /\ last_check.file.kind = "dict") =>
        /\ last_check.result.limit_type = "HOURLY_LIMIT" =>
              /\ HourlyStamps # {}
              /\ last_check.result.next_reset =
                    Floor(SetMin(HourlyStamps) + Sec(HourSeconds) - last_check.at,
                          Sec(MinuteSeconds))
              /\ last_check.result.next_reset \in 0..60
        /\ last_check.result.limit_type = "DAILY_LIMIT" =>
              /\ RetainedStamps # {}
              /\ last_check.result.next_reset =
                    Floor(SetMin(RetainedStamps) + Sec(DaySeconds) - last_check.at,
                          Sec(HourSeconds))
              /\ last_check.result.next_reset \in 0..24

----------------------------------------------------------------------------
(* The usage statistics of a result, src/backend/rate_limiter.py *)

\* C22: every result of check_rate_limit, allowed or denied, carries the
\* usage statistics of the cleaned request list: hourly_used counts the
\* retained timestamps after now - 3600, daily_used the retained timestamps,
\* each remaining field is the limit minus the use, floored at 0; so
\* hourly_used <= daily_used and no remaining field is negative.
C22_StatsOfCleanedList ==
    Checked =>
        LET stats == last_check.result.stats
        IN  /\ stats.hourly_used = HourlyCount
            /\ stats.daily_used = DailyCount
            /\ stats.hourly_limit = hourly_limit
            /\ stats.daily_limit = daily_limit
            /\ stats.hourly_remaining =
                  (IF HourlyCount >= hourly_limit THEN 0
                   ELSE hourly_limit - HourlyCount)
            /\ stats.daily_remaining =
                  (IF DailyCount >= daily_limit THEN 0
                   ELSE daily_limit - DailyCount)
            /\ stats.hourly_used <= stats.daily_used
            /\ stats.hourly_remaining >= 0
            /\ stats.daily_remaining >= 0

\* a result whose use exceeds the hourly limit and whose remaining field is 0
C22_Witness ==
    /\ Checked
    /\ last_check.result.stats.hourly_used > hourly_limit
    /\ last_check.result.stats.hourly_remaining = 0

----------------------------------------------------------------------------
(* What record_request persists, src/backend/rate_limiter.py *)

\* the record record_request leaves for the client it records
RecordedAsSpecified(c) ==
    LET previous == load_ip_data(rate_files[get_ip_file(c)])
        written == rate_files'[get_ip_file(c)]
    IN  /\ written.kind = "dict"
        /\ written.last_request = now
        /\ written.requests =
              SelectSeq(Append(previous.requests, now),
                        LAMBDA t : ~(t <= now - Sec(DaySeconds)))
        /\ written.requests[Len(written.requests)] = now

\* the stored record of every other client is as it was
OthersUntouched(c) ==
    \A d \in Clients \ {c} :
        load_ip_data(rate_files'[get_ip_file(d)]) = load_ip_data(rate_files[get_ip_file(d)])

\* C23: after record_request(client) at time now with a successful write the
\* client's record has last_request = now and requests equal to the previous
\* requests with now appended and every timestamp <= now - 86400 removed, now
\* itself retained; the records of all other clients are unchanged.
C23_RecordPostcondition ==
    [][\A c \in Clients :
          RecordsFor(c) => (RecordedAsSpecified(c) /\ OthersUntouched(c))]_vars

----------------------------------------------------------------------------
(* check_rate_limit reads only, src/backend/rate_limiter.py *)

\* the stored record of the client of the last check, as it is now
StoredNow == rate_files[get_ip_file(last_check.ip)]

\* C24: check_rate_limit never writes the store: after a check, and until
\* the request is recorded, the persisted record is the one the check read,
\* also when the check's cleanup dropped expired timestamps in memory, and a
\* second check of that record at the same time returns an equal result.
C24_CheckIsPure ==
    (last_check.done /\ ~last_check.recorded) =>
        /\ StoredNow = last_check.file
        /\ check_rate_limit(StoredNow, last_check.at) = last_check.result

\* a check whose cleanup dropped a stored timestamp, the file still holding it
C24_Witness ==
    /\ Checked
    /\ ~last_check.recorded
    /\ last_check.file.kind = "dict"
    /\ last_check.result.stats.daily_used < Len(last_check.file.requests)
    /\ Len(StoredNow.requests) = Len(last_check.file.requests)

----------------------------------------------------------------------------
(* The shape of a persisted record, src/backend/rate_limiter.py *)

\* the record read back from a file
Persisted(f) == load_ip_data(rate_files[f])

NonDecreasing(s) == \A i, j \in DOMAIN s : i <= j => s[i] <= s[j]

\* C25: after any sequence of record_request calls with a non-decreasing
\* clock and successful writes every persisted record has its requests in
\* non-decreasing order, every timestamp after last_request - 86400, and
\* last_request equal to the last element of requests, so at least their
\* maximum; a record with empty requests has last_request = 0.
C25_RecordShape ==
    \A f \in RateFileNames :
        LET requests == Persisted(f).requests
            last_request == Persisted(f).last_request
        IN  /\ NonDecreasing(requests)
            /\ \A i \in DOMAIN requests :
                  /\ requests[i] > last_request - Sec(DaySeconds)
                  /\ requests[i] <= last_request
            /\ requests # <<>> => last_request = requests[Len(requests)]
            /\ requests = <<>> => last_request = 0

\* a record written twice, the second time 24 hours or more after the first,
\* so that the second write dropped the first timestamp
C25_Witness ==
    /\ recorded = 2
    /\ \E f \in RateFileNames :
          /\ rate_files[f].kind = "dict"
          /\ Len(rate_files[f].requests) = 1
          /\ \A g \in RateFileNames \ {f} : rate_files[g].kind = "absent"

----------------------------------------------------------------------------
(* URLCache.get over a corrupt entry, src/backend/cache.py *)

\* a get(url) step that finds a corrupt entry
GetsCorrupt(url) ==
    /\ cache_enabled
    /\ cache_log'.get # cache_log.get
    /\ cache_log'.get.url = url
    /\ EntryState(cache_files[get_cache_key(url)], now) = "corrupt"

\* C26: URLCache.get(k) on an entry that is unreadable or corrupt in any way
\* (unparseable content, JSON that is not a record, a missing timestamp or a
\* missing summary) returns absent without raising and deletes the entry.
C26_CorruptEntryIsDropped ==
    [][\A url \in Urls :
          GetsCorrupt(url) =>
              /\ ~cache_log'.get.raised
              /\ cache_log'.get.is_none
              /\ cache_files'[get_cache_key(url)].kind = "absent"]_vars

----------------------------------------------------------------------------
(* The order of the steps of summarize_webpage, src/app.py *)

\* how many times a timestamp occurs in a request list
Occurrences(requests, t) == Cardinality({ i \in DOMAIN requests : requests[i] = t })

\* record_request has run exactly once in the call of p
RecordedOnce(p) ==
    LET f == get_ip_file(call[p].client)
        t == call[p].recorded_at
    IN  /\ Occurrences(load_ip_data(rate_files[f]).requests, t)
             = Occurrences(load_ip_data(call[p].before_rate[f]).requests, t) + 1
        /\ \A g \in RateFileNames \ {f} : rate_files[g] = call[p].before_rate[g]

\* cache.set has not run in the call of p
NotSet(p) ==
    LET k == get_cache_key(call[p].url)
    IN  /\ cache_files[k] \in { call[p].before_cache[k], AbsentFile }
        /\ \A j \in CacheKeys \ {k} : cache_files[j] = call[p].before_cache[j]

\* C27: within a summarize_webpage call the steps run in the order
\* cache.get, check_rate_limit, record_request, external call, cache.set:
\* record_request runs at most once and only after check_rate_limit allowed
\* this call, the external collaborator is called only after record_request,
\* and cache.set only after the collaborator returned successfully.
C27_StepOrder ==
    \A p \in Procs :
        pc[p] # "idle" =>
            /\ pc[p] # "cache_get" => call[p].got_at >= 0
            /\ call[p].check # NoAppCheck =>
                  (call[p].got_at >= 0 /\ ~call[p].cached)
            /\ call[p].recorded_at >= 0 =>
                  /\ call[p].check.allowed
                  /\ ~call[p].check.raised
                  /\ call[p].recorded_at >= call[p].got_at
                  /\ RecordedOnce(p)
            /\ call[p].recorded_at < 0 => rate_files = call[p].before_rate
            /\ call[p].crawled => call[p].recorded_at >= 0
            /\ (pc[p] = "cache_set" \/ response[p].kind = "success") =>
                  (call[p].crawled /\ call[p].summary \in Summaries)
            /\ response[p].kind # "success" => NotSet(p)

\* a call that went through all five steps
C27_Witness ==
    \E p \in Procs :
        /\ Done(p)
        /\ response[p].kind = "success"
        /\ call[p].got_at >= 0
        /\ call[p].check.allowed
        /\ call[p].recorded_at >= 0
        /\ call[p].crawled
        /\ cache_files[get_cache_key(call[p].url)] # call[p].before_cache[get_cache_key(call[p].url)]

----------------------------------------------------------------------------
(* The two copies of the limiter, src/backend/rate_limiter.py and src/app.py *)

\* what the copy in src/app.py answers for the record and time of the last check
AppAnswer == App_check_rate_limit(last_check.file, last_check.at)

\* the denial reason of the app copy that corresponds to a limit_type
ReasonOf(limit_type) ==
    CASE limit_type = "NONE" -> "allowed"
      [] limit_type = "COOLDOWN" -> "cooldown"
      [] limit_type = "HOURLY_LIMIT" -> "hourly"
      [] limit_type = "DAILY_LIMIT" -> "daily"

\* C28: the two limiter copies agree: for the same record, time and limits
\* the backend returns valid = true exactly when the app copy returns
\* allowed = True, the denial reason is the same and the usage stats are the
\* same.
C28_CopiesAgree ==
    Checked =>
        /\ ~AppAnswer.raised
        /\ last_check.result.valid <=> AppAnswer.allowed
        /\ ReasonOf(last_check.result.limit_type) = AppAnswer.message
        /\ last_check.result.stats = AppAnswer.stats

----------------------------------------------------------------------------
(* The fields of a RateLimitResult, src/backend/rate_limiter.py *)

\* C30: every RateLimitResult check_rate_limit returns is consistent: valid
\* is true if and only if limit_type is NONE, limit_type is COOLDOWN if and
\* only if remaining_cooldown > 0, and when valid is true remaining_cooldown
\* and next_reset are both 0.
C30_ResultIsConsistent ==
    Checked =>
        /\ last_check.result.valid <=> last_check.result.limit_type = "NONE"
        /\ last_check.result.limit_type = "COOLDOWN"
             <=> last_check.result.remaining_cooldown > 0
        /\ last_check.result.valid =>
              /\ last_check.result.remaining_cooldown = 0
              /\ last_check.result.next_reset = 0

\* a denial during the cooldown of a client that has also reached a limit
C30_Witness ==
    /\ Checked
    /\ ~last_check.result.valid
    /\ last_check.result.remaining_cooldown > 0
    /\ last_check.result.next_reset > 0
    /\ last_check.result.limit_type = "COOLDOWN"

----------------------------------------------------------------------------
(* A client that keeps checking while time passes,                         *)
(* src/backend/rate_limiter.py                                             *)

\* the latest last_request of the stored records
LatestRequest ==
    LET stamps == { LastRequestOr0(Persisted(f)) : f \in RateFileNames }
    IN  CHOOSE m \in stamps : \A t \in stamps : t <= m

\* the amounts by which the clock advances between two checks of a waiting
\* client: a third of a day, two thirds of a day
LiveSteps == { Sec(DaySeconds) \div 3, 2 * (Sec(DaySeconds) \div 3) }

\* time passes; it is followed until 24 hours after the latest request
TickLive ==
    /\ now < LatestRequest + Sec(DaySeconds)
    /\ \E d \in LiveSteps : now' = now + d
    /\ UNCHANGED <<cfg_vars, aux_vars, advances, rate_files, cache_files,
                   last_check, recorded, app_vars>>

InitLive ==
    /\ InitCommon
    /\ now = StartClock
    /\ pc = <<>>
    /\ call = <<>>
    /\ response = <<>>

NextLive ==
    \/ TickLive
    \/ \E c \in StorageClients : BCheck(c)
    \/ BRecord

\* the wall clock always advances and a waiting client asks again
SpecLive ==
    /\ InitLive
    /\ [][NextLive]_vars
    /\ WF_vars(TickLive)
    /\ \A c \in StorageClients : WF_vars(BCheck(c))

\* the last check was one of client c and was denied
DeniedCheck(c) == Checked /\ last_check.ip = c /\ ~last_check.result.valid

\* the last check was one of client c and was allowed
ValidCheck(c) == Checked /\ last_check.ip = c /\ last_check.result.valid

\* the last check was made 24 hours or more after the record's last_request
DayAfterLast == last_check.at >= CheckedData.last_request + Sec(DaySeconds)

\* C29: no client is locked out permanently: with hourly_limit >= 1,
\* daily_limit >= 1 and cooldown_seconds <= 86400, a client that is denied
\* and records no further request is, as time advances, eventually allowed
\* by check_rate_limit, and every check at a time >= last_request + 86400
\* is allowed.
C29_NoPermanentLockout ==
    /\ [](Checked /\ DayAfterLast => last_check.result.valid)
    /\ \A c \in StorageClients : DeniedCheck(c) ~> ValidCheck(c)

\* a client that had reached its daily limit is allowed 24 hours or more
\* after its last request
C29_Witness ==
    /\ Checked
    /\ last_check.file.kind = "dict"
    /\ Len(last_check.file.requests) >= daily_limit
    /\ DayAfterLast
    /\ last_check.result.valid

====
